---------------------------- MODULE Spec2Model ----------------------------
(***************************************************************************)
(* A model of the zeta problem-generation pipeline:                        *)
(*   - shared_utils.py: the API client (call_deepseek_api) and the         *)
(*     response normalizer (clean_json_response);                          *)
(*   - generate_prompts.py: the prompt-generation stage;                   *)
(*   - generate_problems.py: the problem-generation stage and its          *)
(*     relational persistence (save_problem_to_db);                        *)
(*   - db_query.py: the query tool (list_problems).                        *)
(*                                                                         *)
(* Three specifications share the module's variables:                      *)
(*   SpecClean  a completion text is normalized / returned by the client;  *)
(*   SpecDb     save_problem_to_db calls on one connection, then queries;  *)
(*   Spec       one run of a pipeline script (prompts or problems).        *)
(***************************************************************************)
EXTENDS Integers, Sequences, FiniteSets, TLC

\* ------------------------------------------------------------------------
\* Bounds of the model
\* ------------------------------------------------------------------------

\* Longest completion text, counted in segments of Segments.
MaxSegs == 5

\* ------------------------------------------------------------------------
\* Python string primitives (0-based indices, as in the source)
\* ------------------------------------------------------------------------

\* The characters of the completion texts: a string is a sequence of them.
\* The backtick character is written Tick.
Tick == "tick"
FenceJson == <<Tick, Tick, Tick, "j", "s", "o", "n">>
Fence == <<Tick, Tick, Tick>>
TickBrace == <<Tick, "{">>
BraceTick == <<"}", Tick>>
Whitespace == {" "}

SetMin(S) == CHOOSE m \in S : \A k \in S : m <= k

\* s[i:i+len(sub)] == sub
MatchesAt(s, sub, i) ==
    /\ i >= 0
    /\ i + Len(sub) <= Len(s)
    /\ \A k \in 1..Len(sub) : s[i + k] = sub[k]

\* str.find(sub, start): the lowest index >= start where sub occurs, else -1.
Find(s, sub, start) ==
    LET hits == {i \in start..(Len(s) - Len(sub)) : MatchesAt(s, sub, i)}
    IN  IF hits = {} THEN -1 ELSE SetMin(hits)

\* sub in s
Contains(s, sub) == Find(s, sub, 0) # -1

\* An index of a slice: a negative one counts from the end; both are clamped.
SliceIndex(s, i) ==
    LET j == IF i < 0 THEN i + Len(s) ELSE i
    IN  IF j < 0 THEN 0 ELSE IF j > Len(s) THEN Len(s) ELSE j

\* s[a:b]
Slice(s, a, b) ==
    LET lo == SliceIndex(s, a)
        hi == SliceIndex(s, b)
    IN  IF lo >= hi THEN <<>> ELSE SubSeq(s, lo + 1, hi)

\* str.strip()
Strip(s) ==
    LET keep == {i \in 1..Len(s) : s[i] \notin Whitespace}
    IN  IF keep = {} THEN <<>>
        ELSE SubSeq(s, SetMin(keep), CHOOSE m \in keep : \A k \in keep : k <= m)

\* ------------------------------------------------------------------------
\* shared_utils.py: the response normalizer
\* ------------------------------------------------------------------------

\* The brace walk of clean_json_response: from index i with brace_count
\* count, the end (exclusive) of the span at the first closing brace that brings the
\* count to zero, or -1 when the loop runs off the text.
RECURSIVE BraceWalk(_, _, _)
BraceWalk(s, i, count) ==
    IF i >= Len(s) THEN -1
    ELSE IF s[i + 1] = "{" THEN BraceWalk(s, i + 1, count + 1)
    ELSE IF s[i + 1] = "}"
         THEN IF count - 1 = 0 THEN i + 1 ELSE BraceWalk(s, i + 1, count - 1)
    ELSE BraceWalk(s, i + 1, count)

\* The fenced rule with the marker's own length forgotten.
fenced_interior_from_marker(response) ==
    LET start == Find(response, FenceJson, 0)
        end == Find(response, Fence, start)
    IN  Strip(Slice(response, start, end))

\* Rule (a): the text after the first JSON-tagged fence marker, up to the
\* next fence; find answers -1 when there is none, and the slice then stops
\* one character short of the end.
fenced_interior(response) ==
    LET start == Find(response, FenceJson, 0) + 7
        end == Find(response, Fence, start)
    IN  Strip(Slice(response, start, end))

\* Rule (b): from the brace after the first backtick-brace to the brace of
\* the next brace-backtick; find answers -1 when none follows, and the
\* slice is then empty.
backtick_span(response) ==
    LET start == Find(response, TickBrace, 0) + 1
        end == Find(response, BraceTick, start) + 1
    IN  Strip(Slice(response, start, end))

\* The brace rule taking the text through its last closing brace.
brace_span_last_close(response) ==
    LET start == Find(response, <<"{">>, 0)
        closes == {i \in start..(Len(response) - 1) : response[i + 1] = "}"}
    IN  IF closes # {}
        THEN Strip(Slice(response, start,
                         1 + CHOOSE m \in closes : \A k \in closes : k <= m))
        ELSE response

\* The brace rule taking an unclosed object through the end of the text.
brace_span_open_ended(response) ==
    LET start == Find(response, <<"{">>, 0)
        end == BraceWalk(response, start, 0)
    IN  IF end # -1 THEN Strip(Slice(response, start, end))
        ELSE Strip(Slice(response, start, Len(response)))

\* The brace rule ending at the first closing brace, whatever the depth.
brace_span_first_close(response) ==
    LET start == Find(response, <<"{">>, 0)
        end == Find(response, <<"}">>, start) + 1
    IN  IF end # 0 THEN Strip(Slice(response, start, end)) ELSE response

\* Rule (c): from the first opening brace to the closing brace that brings
\* the depth back to zero; the text itself when the walk finds none.
brace_span(response) ==
    LET start == Find(response, <<"{">>, 0)
        end == BraceWalk(response, start, 0)
    IN  IF end # -1 THEN Strip(Slice(response, start, end)) ELSE response

clean_json_response(response) ==
    IF Contains(response, FenceJson) /\ Contains(response, Fence)
    THEN fenced_interior(response)
    ELSE IF Contains(response, TickBrace) /\ Contains(response, BraceTick)
    THEN backtick_span(response)
    ELSE IF Contains(response, <<"{">>) /\ Contains(response, <<"}">>)
    THEN brace_span(response)
    ELSE response

\* json.loads on the texts of this alphabet: with no quote, digit or letter
\* of a literal in it, the only JSON texts are an empty object, optionally
\* padded with whitespace inside and around.  [ok, value].
json_loads(s) ==
    LET t == Strip(s)
    IN  IF /\ Len(t) >= 2
           /\ t[1] = "{"
           /\ t[Len(t)] = "}"
           /\ \A k \in 2..(Len(t) - 1) : t[k] \in Whitespace
        THEN [ok |-> TRUE, value |-> "empty_object"]
        ELSE [ok |-> FALSE, value |-> "none"]

\* ------------------------------------------------------------------------
\* shared_utils.py: the API client
\* ------------------------------------------------------------------------

\* call_deepseek_api on a request whose HTTP exchange succeeds (http_ok) with
\* completion text content, or fails.  What the caller gets:
\*   [kind |-> "exit", status]   sys.exit(1) from the RequestException handler
\*   [kind |-> "parsed", value]  the value json.loads returned
\*   [kind |-> "text", text]     a string
call_deepseek_api(http_ok, content, expect_json) ==
    IF ~http_ok
    THEN [kind |-> "exit", status |-> 1]
    ELSE IF expect_json
         THEN LET cleaned_content == clean_json_response(content)
                  parsed == json_loads(cleaned_content)
              IN  IF parsed.ok
                  THEN [kind |-> "parsed", value |-> parsed.value]
                  ELSE [kind |-> "text", text |-> cleaned_content]
         ELSE [kind |-> "text", text |-> content]

\* ------------------------------------------------------------------------
\* Completion texts of the model
\* ------------------------------------------------------------------------

\* What a completion is built from: the fence markers, a backtick, braces,
\* a prose character and a blank.
Segments ==
    {FenceJson, Fence, <<Tick>>, <<"{">>, <<"}">>, <<"x">>, <<" ">>}

RECURSIVE TextsUpTo(_)
TextsUpTo(n) ==
    IF n = 0 THEN {<<>>}
    ELSE LET shorter == TextsUpTo(n - 1)
         IN  shorter \cup {seg \o t : seg \in Segments, t \in shorter}

Texts == TextsUpTo(MaxSegs)

\* ------------------------------------------------------------------------
\* generate_problems.py: the relational store
\* ------------------------------------------------------------------------

\* The three tables as one connection sees them.  Ids are AUTOINCREMENT and
\* no row is ever deleted, so a row's id is its position: problems[id] is
\* the row (problem text, prompt_title; answer and solution ride along with
\* the text), tags[id] is the tag's name, problem_tags the (problem_id,
\* tag_id) pairs.
EmptyDb == [problems |-> <<>>, tags |-> <<>>, problem_tags |-> {}]

\* prompt_data.get("tags", [])
PromptTags(prompt_data) ==
    IF "tags" \in prompt_data.has THEN prompt_data.tags ELSE <<>>

\* INSERT INTO tags, with no conflict clause and no UNIQUE to stop it.
insert_tag_unconditionally(db, name) ==
    [db EXCEPT !.tags = Append(@, name)]

\* INSERT OR IGNORE INTO tags (name): name is UNIQUE, a second insert of a
\* name is ignored.
insert_or_ignore_tag(db, name) ==
    IF \E t \in 1..Len(db.tags) : db.tags[t] = name
    THEN db
    ELSE [db EXCEPT !.tags = Append(@, name)]

\* SELECT id FROM tags WHERE name = ?; fetchone()[0]
select_tag_id(db, name) ==
    SetMin({t \in 1..Len(db.tags) : db.tags[t] = name})

\* The loop over the prompt's tags: upsert the tag, read its id back, link.
\* INSERT INTO problem_tags raises IntegrityError on a pair already there
\* (the composite primary key): the loop stops, the statements before it
\* stay in the open transaction.  [db, raised].
RECURSIVE link_tags(_, _, _)
link_tags(db, problem_id, tag_list) ==
    IF tag_list = <<>>
    THEN [db |-> db, raised |-> FALSE]
    ELSE LET with_tag == insert_or_ignore_tag(db, Head(tag_list))
             tag_id == select_tag_id(with_tag, Head(tag_list))
         IN  IF <<problem_id, tag_id>> \in with_tag.problem_tags
             THEN [db |-> with_tag, raised |-> TRUE]
             ELSE link_tags(
                      [with_tag EXCEPT
                          !.problem_tags = @ \cup {<<problem_id, tag_id>>}],
                      problem_id, Tail(tag_list))

\* save_problem_to_db on a connection whose view is conn and whose last
\* commit is disk.  A problem with a null field violates NOT NULL at the
\* first INSERT and nothing is written.  conn.commit() is reached only when
\* no statement raised.  [conn, disk, raised, problem_id].
save_problem_to_db(conn, disk, problem, prompt_data) ==
    IF problem.null
    THEN [conn |-> conn, disk |-> disk, raised |-> TRUE, problem_id |-> 0]
    ELSE LET inserted ==
                 [conn EXCEPT !.problems =
                     Append(@, [problem |-> problem.problem,
                                prompt_title |-> prompt_data.title])]
             problem_id == Len(inserted.problems)
             linked == link_tags(inserted, problem_id, PromptTags(prompt_data))
         IN  IF linked.raised
             THEN [conn |-> linked.db, disk |-> disk,
                   raised |-> TRUE, problem_id |-> problem_id]
             ELSE [conn |-> linked.db, disk |-> linked.db,
                   raised |-> FALSE, problem_id |-> problem_id]

\* get_recent_problems_by_type: SELECT problem ... WHERE prompt_title = ?
\* ORDER BY id DESC LIMIT num_recent
RECURSIVE recent_from(_, _, _, _)
recent_from(db, prompt_title, id, num_recent) ==
    IF id = 0 \/ num_recent = 0 THEN <<>>
    ELSE IF db.problems[id].prompt_title = prompt_title
         THEN <<db.problems[id].problem>>
              \o recent_from(db, prompt_title, id - 1, num_recent - 1)
         ELSE recent_from(db, prompt_title, id - 1, num_recent)

\* The query with its LIMIT clause forgotten.
get_all_problems_by_type(db, prompt_title, num_recent) ==
    recent_from(db, prompt_title, Len(db.problems), Len(db.problems))

get_recent_problems_by_type(db, prompt_title, num_recent) ==
    recent_from(db, prompt_title, Len(db.problems), num_recent)

\* ------------------------------------------------------------------------
\* db_query.py: list
\* ------------------------------------------------------------------------

\* A set of ids in ascending order.
RECURSIVE Ascending(_)
Ascending(S) ==
    IF S = {} THEN <<>> ELSE <<SetMin(S)>> \o Ascending(S \ {SetMin(S)})

\* Python truthiness of the two optional arguments: absent, "" and 0 are
\* all false.
TagArgTruthy(args) == args.tag_given /\ args.tag # ""
LimitArgTruthy(args) == args.limit_given /\ args.limit # 0

\* GROUP_CONCAT(t.name, ', ') over the rows joined to one problem: the names
\* with the separator between them; NULL, written <<>>, when the LEFT JOIN
\* found no tag.
RECURSIVE JoinNames(_)
JoinNames(names) ==
    IF Len(names) = 1 THEN <<names[1]>>
    ELSE <<names[1], ", ">> \o JoinNames(Tail(names))

group_concat_tags(db, problem_id) ==
    LET tag_ids == Ascending({t \in 1..Len(db.tags) :
                                 <<problem_id, t>> \in db.problem_tags})
        names == [k \in 1..Len(tag_ids) |-> db.tags[tag_ids[k]]]
    IN  IF names = <<>> THEN <<>> ELSE JoinNames(names)

\* WHERE p.id IN (SELECT problem_id FROM problem_tags JOIN tags ...
\*                WHERE tags.name = ?)
ids_with_tag(db, tag) ==
    {p \in 1..Len(db.problems) :
        \E t \in 1..Len(db.tags) :
            db.tags[t] = tag /\ <<p, t>> \in db.problem_tags}

\* The rows list_problems fetches: GROUP BY p.id yields them by ascending
\* id; the WHERE and the LIMIT are appended only for a truthy argument.
list_problems(db, args) ==
    LET ids == IF TagArgTruthy(args)
               THEN ids_with_tag(db, args.tag)
               ELSE 1..Len(db.problems)
        ordered == Ascending(ids)
        rows == [k \in 1..Len(ordered) |->
                    [id |-> ordered[k],
                     problem |-> db.problems[ordered[k]].problem,
                     prompt_title |-> db.problems[ordered[k]].prompt_title,
                     tags |-> group_concat_tags(db, ordered[k])]]
    IN  IF LimitArgTruthy(args) /\ args.limit < Len(rows)
        THEN SubSeq(rows, 1, args.limit)
        ELSE rows

\* ------------------------------------------------------------------------
\* Inputs of the pipeline scripts
\* ------------------------------------------------------------------------

\* Longest topics list / prompts list of an input file.
MaxItems == 2
\* Longest "problems" / "problem_types" list of one API response.
MaxBatch == 2

RECURSIVE SeqsUpTo(_, _)
SeqsUpTo(S, n) ==
    IF n = 0 THEN {<<>>}
    ELSE LET shorter == SeqsUpTo(S, n - 1)
         IN  shorter \cup {<<x>> \o t : x \in S, t \in shorter}

PromptKeys == {"id", "title", "topic", "tags", "prompt"}
ProblemKeys == {"problem", "answer", "solution"}

\* Prompt records ({id, title, topic, tags, prompt} objects): well-shaped
\* ones, one naming a tag twice, one without tags, one without a title.
PromptPool ==
    {[has |-> PromptKeys, title |-> "T1", tags |-> <<"a">>],
     [has |-> PromptKeys, title |-> "T1", tags |-> <<"a", "a", "b">>],
     [has |-> PromptKeys \ {"tags"}, title |-> "T2", tags |-> <<>>],
     [has |-> PromptKeys \ {"title"}, title |-> "", tags |-> <<"a">>]}

\* The objects of a "problem_types" list the API returns: a well-shaped
\* one and one without a title.
TypePool == {p \in PromptPool : p.tags = <<"a">>}

\* The prompts save_problem_to_db is called with directly: those of the
\* pool that have a title, and one more with two tags.
StoredPromptPool ==
    {p \in PromptPool : "title" \in p.has}
    \cup {[has |-> PromptKeys, title |-> "T2", tags |-> <<"b", "a">>]}

\* Entries of a "problems" list: the keys an entry carries, and whether one
\* of its values is null.
EntryPool ==
    {[has |-> ProblemKeys, null |-> FALSE],
     [has |-> ProblemKeys, null |-> TRUE],
     [has |-> ProblemKeys \ {"answer"}, null |-> FALSE]}

\* What call_deepseek_api(prompt, expect_json=True) hands a stage that
\* expects the key "problems" or "problem_types" with entries from pool:
\*   py = "dict"   a parsed object; has_key: it has the expected key,
\*                 is_list: that key's value is a list, list: the list;
\*   py = "other"  a parsed value that is neither an object nor a string;
\*   py = "str"    a string: the text json.loads rejected (loads_ok FALSE),
\*                 or a parsed JSON string, whose content may itself parse.
DictValues(pool) ==
    {[py |-> "dict", has_key |-> FALSE, is_list |-> FALSE, list |-> <<>>],
     [py |-> "dict", has_key |-> TRUE, is_list |-> FALSE, list |-> <<>>]}
    \cup {[py |-> "dict", has_key |-> TRUE, is_list |-> TRUE, list |-> l] :
             l \in SeqsUpTo(pool, MaxBatch)}

OtherValue == [py |-> "other"]

Responses(pool, sample) ==
    DictValues(pool)
    \cup {OtherValue}
    \cup {[py |-> "str", loads_ok |-> FALSE, loads_value |-> OtherValue],
          [py |-> "str", loads_ok |-> TRUE, loads_value |-> OtherValue],
          [py |-> "str", loads_ok |-> TRUE,
           loads_value |-> [py |-> "dict", has_key |-> TRUE,
                            is_list |-> TRUE, list |-> <<sample>>]]}

\* load_from_json of an input file: None (absent or unreadable), or the
\* document: an array of records or an object wrapping one under a key.
NoFile == [form |-> "none", key |-> "", records |-> <<>>]
ArrayFile(records) == [form |-> "array", key |-> "", records |-> records]
ObjectFile(key, records) == [form |-> "object", key |-> key, records |-> records]

\* Python truthiness of a loaded document: None, [] and {} are false.  An
\* object wrapping a list under one key is never empty.
Truthy(doc) ==
    /\ doc.form # "none"
    /\ doc.form = "array" => doc.records # <<>>

\* ------------------------------------------------------------------------
\* generate_problems.py: one response of the loop
\* ------------------------------------------------------------------------

\* "problem" in problem and "answer" in problem and "solution" in problem
has_required_fields_problem_only(problem) == "problem" \in problem.has

has_required_fields(problem) == ProblemKeys \subseteq problem.has

\* The loop over problems_batch from position k on.  A save that raises
\* leaves the loop (the exception travels to the handler of the item).  The
\* text of the k-th problem of item item_no is written <<item_no, k>>.
\* [conn, disk, added: saves that returned, handed: positions handed to
\* save_problem_to_db, raised].
RECURSIVE save_batch(_, _, _, _, _, _)
save_batch(conn, disk, batch, k, prompt_data, item_no) ==
    IF k > Len(batch)
    THEN [conn |-> conn, disk |-> disk, added |-> 0, handed |-> <<>>,
          raised |-> FALSE]
    ELSE IF has_required_fields(batch[k])
    THEN LET saved == save_problem_to_db(
                          conn, disk,
                          [problem |-> <<item_no, k>>, null |-> batch[k].null],
                          prompt_data)
         IN  IF saved.raised
             THEN [conn |-> saved.conn, disk |-> saved.disk, added |-> 0,
                   handed |-> <<k>>, raised |-> TRUE]
             ELSE LET rest == save_batch(saved.conn, saved.disk, batch, k + 1,
                                         prompt_data, item_no)
                  IN  [rest EXCEPT !.added = @ + 1, !.handed = <<k>> \o @]
    ELSE save_batch(conn, disk, batch, k + 1, prompt_data, item_no)

\* The inner try: a dict is taken as is, anything else goes to json.loads,
\* which raises JSONDecodeError on a text that is no JSON and TypeError on
\* a value that is no string.  [outcome, data].
parse_problems_response(response) ==
    IF response.py = "dict" THEN [outcome |-> "ok", data |-> response]
    ELSE IF response.py = "str"
         THEN IF response.loads_ok
              THEN [outcome |-> "ok", data |-> response.loads_value]
              ELSE [outcome |-> "json_error", data |-> OtherValue]
    ELSE [outcome |-> "type_error", data |-> OtherValue]

\* The body of the loop after the API call.
\* [conn, disk, added, handed, outcome].
handle_problems_response(conn, disk, response, prompt_data, item_no) ==
    LET parsed == parse_problems_response(response)
        untouched(outcome) ==
            [conn |-> conn, disk |-> disk, added |-> 0, handed |-> <<>>,
             outcome |-> outcome]
    IN  IF parsed.outcome # "ok" THEN untouched(parsed.outcome)
        ELSE IF parsed.data.py = "dict" /\ parsed.data.has_key
        THEN IF parsed.data.is_list
             THEN LET b == save_batch(conn, disk, parsed.data.list, 1,
                                      prompt_data, item_no)
                  IN  [conn |-> b.conn, disk |-> b.disk, added |-> b.added,
                       handed |-> b.handed,
                       outcome |-> IF b.raised THEN "save_raised" ELSE "added"]
             ELSE untouched("not_list")
        ELSE untouched("bad_format")

\* Where the loop goes after an item: the continue of the JSONDecodeError
\* handler and the except Exception of the item both go on with the next
\* item.
next_after_item_abort_on_exception(outcome) ==
    IF outcome \in {"type_error", "save_raised", "bad_format"}
    THEN "exited" ELSE "loop"

next_after_item(outcome) == "loop"

\* How many recent problems of a type go into the duplication hint.
num_recent_for_dedup == 15

\* generate_problems reads prompt_data["title"], and
\* create_problem_generation_prompt reads ["prompt"] and ["topic"]: a
\* missing key is a KeyError outside the item's try.
prompt_is_readable(prompt_data) ==
    {"title", "topic", "prompt"} \subseteq prompt_data.has

\* not prompts or not isinstance(prompts, list): the file is refused.
prompts_refused_unless_present(prompts) == prompts.form = "none"

prompts_refused(prompts) == ~Truthy(prompts) \/ prompts.form # "array"

\* ------------------------------------------------------------------------
\* generate_prompts.py: one response of the loop
\* ------------------------------------------------------------------------

\* json.loads(response) in a bare except: whatever it raises, the response
\* is taken as it is.
parse_prompts_response(response) ==
    IF response.py = "str" /\ response.loads_ok
    THEN response.loads_value
    ELSE response

well_shaped(data) == data.py = "dict" /\ data.has_key /\ data.is_list

extend_prepending(all, problem_types) == problem_types \o all

\* all_prompts.extend(problem_types)
extend(all, problem_types) == all \o problem_types

\* The body of the loop after the API call: the new all_prompts.
handle_prompts_response(all, response) ==
    LET data == parse_prompts_response(response)
    IN  IF well_shaped(data) THEN extend(all, data.list) ELSE all

\* not topics_data or not isinstance(topics_data, dict) or "topics" not in
\* topics_data
topics_refused(topics_data) ==
    \/ ~Truthy(topics_data)
    \/ topics_data.form # "object"
    \/ topics_data.key # "topics"

\* ------------------------------------------------------------------------
\* State
\* ------------------------------------------------------------------------

VARIABLES
    \* the API client and the normalizer on one completion text
    reply,            \* the completion text the API sent
    norm_pc,          \* "idle", "ready", "cleaned", "returned"
    cleaned,          \* what clean_json_response(reply) returned
    api_ret,          \* what call_deepseek_api returned
    \* the store
    conn,             \* the tables as the writing connection sees them
    disk,             \* the tables as of the last commit
    saves,            \* save_problem_to_db calls made so far
    save_log,         \* history: the saves that returned, [problem_id, tags]
    query,            \* the arguments of the last list command
    rows,             \* the rows the last list command fetched
    \* one run of a pipeline script
    script,           \* "generate_prompts", "generate_problems", or "none"
    db0,              \* history: the database file as the run found it
    pc,               \* "start", "loop", "handle", "done", "exited", "idle"
    exit_status,      \* the status of the process once pc is done or exited
    infile,           \* topics.json / prompts.json as load_from_json finds it
    outfile,          \* prompts.json as generate_prompts leaves it
    items,            \* topics / prompts: the list the loop runs over
    idx,              \* items handled so far
    response,         \* what call_deepseek_api returned for the current item
    recent_problems,  \* the duplication hint built for the current item
    all_prompts,      \* generate_prompts: the master list
    total_problems_generated,
    api_calls,        \* history: the item numbers an API call was made for
    handed,           \* history: batch positions handed to persistence for
                      \* the last response
    last_outcome      \* history: how the last response was handled

norm_vars == <<reply, norm_pc, cleaned, api_ret>>
db_vars == <<conn, disk, saves, save_log, query, rows>>
run_vars == <<script, db0, pc, exit_status, infile, outfile, items, idx, response,
              recent_problems, all_prompts, total_problems_generated,
              api_calls, handed, last_outcome>>
vars == <<norm_vars, db_vars, run_vars>>

NoApiReturn == [kind |-> "none"]
NoQuery ==
    [ran |-> FALSE, tag_given |-> FALSE, tag |-> "",
     limit_given |-> FALSE, limit |-> 0]

NormIdle ==
    /\ reply = <<>>
    /\ norm_pc = "idle"
    /\ cleaned = <<>>
    /\ api_ret = NoApiReturn

DbFresh ==
    /\ conn = EmptyDb
    /\ disk = EmptyDb
    /\ saves = 0
    /\ save_log = <<>>
    /\ query = NoQuery
    /\ rows = <<>>

RunIdle ==
    /\ script = "none"
    /\ db0 = EmptyDb
    /\ pc = "idle"
    /\ exit_status = 0
    /\ infile = NoFile
    /\ outfile = NoFile
    /\ items = <<>>
    /\ idx = 0
    /\ response = OtherValue
    /\ recent_problems = <<>>
    /\ all_prompts = <<>>
    /\ total_problems_generated = 0
    /\ api_calls = <<>>
    /\ handed = <<>>
    /\ last_outcome = "none"

\* ------------------------------------------------------------------------
\* SpecClean: the API client and the normalizer on one completion text
\* ------------------------------------------------------------------------

InitClean ==
    /\ reply \in Texts
    /\ norm_pc = "ready"
    /\ cleaned = <<>>
    /\ api_ret = NoApiReturn
    /\ DbFresh
    /\ RunIdle

\* clean_json_response(reply)
Normalize ==
    /\ norm_pc = "ready"
    /\ cleaned' = clean_json_response(reply)
    /\ norm_pc' = "cleaned"
    /\ UNCHANGED <<reply, api_ret, db_vars, run_vars>>

\* call_deepseek_api(prompt, expect_json) when the API answers with reply,
\* or when the HTTP exchange fails.
ApiCall(http_ok, expect_json) ==
    /\ norm_pc = "ready"
    /\ api_ret' = call_deepseek_api(http_ok, reply, expect_json)
    /\ norm_pc' = "returned"
    /\ UNCHANGED <<reply, cleaned, db_vars, run_vars>>

NextClean ==
    \/ Normalize
    \/ \E http_ok \in BOOLEAN, expect_json \in BOOLEAN :
           ApiCall(http_ok, expect_json)

SpecClean == InitClean /\ [][NextClean]_vars

\* ------------------------------------------------------------------------
\* SpecDb: save_problem_to_db calls on one connection, and list queries
\* ------------------------------------------------------------------------

\* Most save_problem_to_db calls on the connection.
MaxSaves == 3
\* Largest --limit of a list command.
MaxLimit == 2

\* The command lines of list: --tag absent or one of three names, --limit
\* absent or a number (argparse leaves an absent argument None, here
\* tag_given / limit_given FALSE).
QueryArgs ==
    {[ran |-> TRUE, tag_given |-> FALSE, tag |-> "",
      limit_given |-> lg, limit |-> l] :
        lg \in BOOLEAN, l \in 0..MaxLimit}
    \cup {[ran |-> TRUE, tag_given |-> TRUE, tag |-> t,
           limit_given |-> lg, limit |-> l] :
              t \in {"", "a", "b"}, lg \in BOOLEAN, l \in 0..MaxLimit}

InitDb ==
    /\ NormIdle
    /\ DbFresh
    /\ RunIdle

\* save_problem_to_db(conn, problem, prompt_data) after setup_database.  The
\* generating run comes first, the queries after it.
DbSave(prompt_data, null) ==
    /\ saves < MaxSaves
    /\ ~query.ran
    /\ LET saved == save_problem_to_db(
                        conn, disk,
                        [problem |-> <<0, saves + 1>>, null |-> null],
                        prompt_data)
       IN  /\ conn' = saved.conn
           /\ disk' = saved.disk
           /\ save_log' =
                  IF saved.raised THEN save_log
                  ELSE Append(save_log, [problem_id |-> saved.problem_id,
                                         tags |-> PromptTags(prompt_data)])
    /\ saves' = saves + 1
    /\ UNCHANGED <<query, rows, norm_vars, run_vars>>

\* db_query.py list [--tag T] [--limit N], on a connection of its own: it
\* sees what is committed.
DbList(args) ==
    /\ (~args.limit_given) => args.limit = 0
    /\ query' = args
    /\ rows' = list_problems(disk, args)
    /\ UNCHANGED <<conn, disk, saves, save_log, norm_vars, run_vars>>

NextDb ==
    \/ \E prompt_data \in StoredPromptPool, null \in BOOLEAN :
           DbSave(prompt_data, null)
    \/ \E args \in QueryArgs : DbList(args)

SpecDb == InitDb /\ [][NextDb]_vars

\* ------------------------------------------------------------------------
\* Spec: one run of generate_prompts.py or of generate_problems.py
\* ------------------------------------------------------------------------

TopicPool == {"t1", "t2"}

TopicsFiles ==
    {NoFile, ArrayFile(<<"t1">>), ObjectFile("other", <<>>)}
    \cup {ObjectFile("topics", l) : l \in SeqsUpTo(TopicPool, MaxItems)}

PromptsFiles ==
    {NoFile}
    \cup {ArrayFile(l) : l \in SeqsUpTo(PromptPool, MaxItems)}
    \cup {ObjectFile("problem_types", l) : l \in SeqsUpTo(PromptPool, MaxItems)}

SamplePrompt == [has |-> PromptKeys, title |-> "T1", tags |-> <<"a">>]
SampleEntry == [has |-> ProblemKeys, null |-> FALSE]

\* What an earlier run left in the database file: one problem more than the
\* duplication hint takes, all of type "T1" and tagged "a".
PriorDb ==
    [problems |-> [k \in 1..(num_recent_for_dedup + 1) |->
                      [problem |-> <<0, k>>, prompt_title |-> "T1"]],
     tags |-> <<"a">>,
     problem_tags |-> {<<k, 1>> : k \in 1..(num_recent_for_dedup + 1)}]

\* setup_database creates the tables only if they do not exist: the run
\* starts on a new file or on the file of an earlier run.
StoredBefore == {EmptyDb, PriorDb}

Init ==
    /\ NormIdle
    /\ script \in {"generate_prompts", "generate_problems"}
    /\ db0 \in (IF script = "generate_problems" THEN StoredBefore
                ELSE {EmptyDb})
    /\ conn = db0
    /\ disk = db0
    /\ saves = 0
    /\ save_log = <<>>
    /\ query = NoQuery
    /\ rows = <<>>
    /\ pc = "start"
    /\ exit_status = 0
    /\ infile \in (IF script = "generate_prompts" THEN TopicsFiles
                   ELSE PromptsFiles)
    /\ outfile = NoFile
    /\ items = <<>>
    /\ idx = 0
    /\ response = OtherValue
    /\ recent_problems = <<>>
    /\ all_prompts = <<>>
    /\ total_problems_generated = 0
    /\ api_calls = <<>>
    /\ handed = <<>>
    /\ last_outcome = "none"

\* The failure swallowed: the loop goes on as if nothing had happened.
Exit1_swallowed ==
    /\ pc' = "loop"
    /\ exit_status' = exit_status
    /\ conn' = conn

\* sys.exit(1): the process ends; what its connection had not committed is
\* gone.
Exit1 ==
    /\ pc' = "exited"
    /\ exit_status' = 1
    /\ conn' = disk

\* generate_problems: setup_database, load_from_json, the check of the
\* loaded prompts.
LoadPrompts ==
    /\ script = "generate_problems"
    /\ pc = "start"
    /\ IF prompts_refused(infile)
       THEN /\ Exit1
            /\ UNCHANGED items
       ELSE /\ items' = infile.records
            /\ pc' = "loop"
            /\ UNCHANGED <<exit_status, conn>>
    /\ UNCHANGED <<script, db0, infile, outfile, idx, response, recent_problems,
                   all_prompts, total_problems_generated, api_calls, handed,
                   last_outcome, disk, saves, save_log, query, rows, norm_vars>>

\* generate_problems, the head of one iteration: the title, the duplication
\* hint, the prompt text, the API call.  http_ok and reply_value are the
\* API's answer.
ProblemsCall(http_ok, reply_value) ==
    /\ script = "generate_problems"
    /\ pc = "loop"
    /\ idx < Len(items)
    /\ LET prompt_data == items[idx + 1]
       IN  IF ~prompt_is_readable(prompt_data)
           THEN \* KeyError outside the item's try: "Error in main process"
                /\ Exit1
                /\ UNCHANGED <<response, recent_problems, api_calls,
                               last_outcome>>
           ELSE /\ recent_problems' =
                       get_recent_problems_by_type(conn, prompt_data.title,
                                                   num_recent_for_dedup)
                /\ api_calls' = Append(api_calls, idx + 1)
                /\ IF http_ok
                   THEN /\ response' = reply_value
                        /\ pc' = "handle"
                        /\ UNCHANGED <<exit_status, conn, last_outcome>>
                   ELSE /\ Exit1
                        /\ last_outcome' = "http_error"
                        /\ UNCHANGED response
    /\ UNCHANGED <<script, db0, infile, outfile, items, idx, all_prompts,
                   total_problems_generated, handed, disk,
                   saves, save_log, query, rows, norm_vars>>

\* generate_problems, the rest of the iteration: the response is parsed,
\* checked and its problems saved.
ProblemsHandle ==
    /\ script = "generate_problems"
    /\ pc = "handle"
    /\ LET h == handle_problems_response(conn, disk, response,
                                         items[idx + 1], idx + 1)
       IN  /\ conn' = h.conn
           /\ disk' = h.disk
           /\ total_problems_generated' = total_problems_generated + h.added
           /\ handed' = h.handed
           /\ last_outcome' = h.outcome
           /\ pc' = next_after_item(h.outcome)
           /\ exit_status' = IF next_after_item(h.outcome) = "exited"
                             THEN 1 ELSE exit_status
    /\ idx' = idx + 1
    /\ UNCHANGED <<script, db0, infile, outfile, items, response, recent_problems,
                   all_prompts, api_calls, saves, save_log, query, rows,
                   norm_vars>>

\* generate_problems after the loop: the summary, conn.close().
ProblemsFinish ==
    /\ script = "generate_problems"
    /\ pc = "loop"
    /\ idx = Len(items)
    /\ pc' = "done"
    /\ conn' = disk
    /\ UNCHANGED <<script, db0, exit_status, infile, outfile, items, idx, response,
                   recent_problems, all_prompts, total_problems_generated,
                   api_calls, handed, last_outcome, disk, saves, save_log,
                   query, rows, norm_vars>>

\* generate_prompts: load_from_json and the check of the loaded topics.
LoadTopics ==
    /\ script = "generate_prompts"
    /\ pc = "start"
    /\ IF topics_refused(infile)
       THEN /\ Exit1
            /\ UNCHANGED items
       ELSE /\ items' = infile.records
            /\ pc' = "loop"
            /\ UNCHANGED <<exit_status, conn>>
    /\ UNCHANGED <<script, db0, infile, outfile, idx, response, recent_problems,
                   all_prompts, total_problems_generated, api_calls, handed,
                   last_outcome, disk, saves, save_log, query, rows, norm_vars>>

\* generate_prompts, the head of one iteration: the prompt text and the API
\* call.
PromptsCall(http_ok, reply_value) ==
    /\ script = "generate_prompts"
    /\ pc = "loop"
    /\ idx < Len(items)
    /\ api_calls' = Append(api_calls, idx + 1)
    /\ IF http_ok
       THEN /\ response' = reply_value
            /\ pc' = "handle"
            /\ UNCHANGED <<exit_status, conn, last_outcome>>
       ELSE /\ Exit1
            /\ last_outcome' = "http_error"
            /\ UNCHANGED response
    /\ UNCHANGED <<script, db0, infile, outfile, items, idx, recent_problems,
                   all_prompts, total_problems_generated, handed,
                   disk, saves, save_log, query, rows, norm_vars>>

\* generate_prompts, the rest of the iteration.
PromptsHandle ==
    /\ script = "generate_prompts"
    /\ pc = "handle"
    /\ all_prompts' = handle_prompts_response(all_prompts, response)
    /\ last_outcome' =
           IF well_shaped(parse_prompts_response(response))
           THEN "added" ELSE "bad_format"
    /\ idx' = idx + 1
    /\ pc' = "loop"
    /\ UNCHANGED <<script, db0, exit_status, infile, outfile, items, response,
                   recent_problems, total_problems_generated, api_calls,
                   handed, db_vars, norm_vars>>

\* generate_prompts after the loop: save_to_json(all_prompts, prompts.json),
\* which writes the file or, on an I/O error, reports it and goes on.
PromptsFinish(written) ==
    /\ script = "generate_prompts"
    /\ pc = "loop"
    /\ idx = Len(items)
    /\ outfile' = IF written THEN ArrayFile(all_prompts) ELSE outfile
    /\ pc' = "done"
    /\ UNCHANGED <<script, db0, exit_status, infile, items, idx, response,
                   recent_problems, all_prompts, total_problems_generated,
                   api_calls, handed, last_outcome, db_vars, norm_vars>>

Next ==
    \/ LoadPrompts
    \/ \E v \in Responses(EntryPool, SampleEntry) : ProblemsCall(TRUE, v)
    \/ ProblemsCall(FALSE, OtherValue)
    \/ ProblemsHandle
    \/ ProblemsFinish
    \/ LoadTopics
    \/ \E v \in Responses(TypePool, SamplePrompt) : PromptsCall(TRUE, v)
    \/ PromptsCall(FALSE, OtherValue)
    \/ PromptsHandle
    \/ \E written \in BOOLEAN : PromptsFinish(written)

Spec == Init /\ [][Next]_vars

\* ------------------------------------------------------------------------
\* Claims about the normalizer and the API client (SpecClean)
\* ------------------------------------------------------------------------

\* The text s[a:b] (0-based, b exclusive) of a text s.
Between(s, a, b) == [k \in 1..(b - a) |-> s[a + k]]

\* c is t without its leading and trailing whitespace.
IsTrimOf(c, t) ==
    \E a \in 0..Len(t) : \E b \in 0..(Len(t) - a) :
        /\ \A k \in 1..a : t[k] \in Whitespace
        /\ \A k \in (Len(t) - b + 1)..Len(t) : t[k] \in Whitespace
        /\ c = Between(t, a, Len(t) - b)
        /\ c # <<>> => (c[1] \notin Whitespace /\ c[Len(c)] \notin Whitespace)

\* A fenced block of s: a fence marker at i, tagged json or not, with its
\* interior from a to the closing fence at j, no fence marker in between.
FencedBlock(s, i, a, j) ==
    /\ MatchesAt(s, Fence, i)
    /\ a = (IF MatchesAt(s, FenceJson, i) THEN i + 7 ELSE i + 3)
    /\ j >= a
    /\ MatchesAt(s, Fence, j)
    /\ \A k \in a..(j - 1) : ~MatchesAt(s, Fence, k)

\* The first JSON-tagged marker of s is at i, and the first fence marker
\* after it is at j.
TaggedBlock(s, i, j) ==
    /\ MatchesAt(s, FenceJson, i)
    /\ \A k \in 0..(i - 1) : ~MatchesAt(s, FenceJson, k)
    /\ j >= i + 7
    /\ MatchesAt(s, Fence, j)
    /\ \A k \in (i + 7)..(j - 1) : ~MatchesAt(s, Fence, k)

\* C4 as stated: whenever the reply holds a well-formed JSON object wrapped
\* in a fenced code block, clean_json_response returns exactly the interior
\* of that block.
C4_ExactFencedInterior ==
    norm_pc = "cleaned" =>
        \A i \in 0..Len(reply) : \A a \in 0..Len(reply) : \A j \in 0..Len(reply) :
            (FencedBlock(reply, i, a, j) /\ json_loads(Between(reply, a, j)).ok)
                => cleaned = Between(reply, a, j)

\* C4 amended: whenever the reply holds a JSON-tagged fence marker followed
\* by a closing fence, clean_json_response returns the text between the
\* first such marker and the first fence after it, without its leading and
\* trailing whitespace.
C4_TaggedFenceInteriorTrimmed ==
    norm_pc = "cleaned" =>
        \A i \in 0..Len(reply) : \A j \in 0..Len(reply) :
            TaggedBlock(reply, i, j)
                => IsTrimOf(cleaned, Between(reply, i + 7, j))

\* C4 witness: a tagged fence around a padded JSON object, and the object
\* alone was returned.
C4_Witness ==
    /\ norm_pc = "cleaned"
    /\ \E i \in 0..Len(reply) : \E j \in 0..Len(reply) :
           /\ TaggedBlock(reply, i, j)
           /\ json_loads(Between(reply, i + 7, j)).ok
           /\ cleaned # Between(reply, i + 7, j)
           /\ cleaned = <<"{", "}">>

\* The braces of s[a:b] balance, and the depth first returns to zero at
\* the last character of the span.
Opens(s, a, b) == Cardinality({k \in (a + 1)..b : s[k] = "{"})
Closes(s, a, b) == Cardinality({k \in (a + 1)..b : s[k] = "}"})

\* s[a:b] is the one balanced top-level brace span of s: it opens with a
\* brace, its depth returns to zero only at its end, and no brace lies
\* outside it.
OnlyTopLevelSpan(s, a, b) ==
    /\ 0 <= a /\ a < b /\ b <= Len(s)
    /\ s[a + 1] = "{"
    /\ Opens(s, a, b) = Closes(s, a, b)
    /\ \A m \in (a + 1)..(b - 1) : Opens(s, a, m) > Closes(s, a, m)
    /\ \A k \in 1..Len(s) : (k <= a \/ k > b) => s[k] \notin {"{", "}"}

\* C5 as stated: a reply with exactly one balanced top-level brace span
\* amid arbitrary prose is normalized to exactly that span.
C5_ReturnsTheOnlySpan ==
    norm_pc = "cleaned" =>
        \A a \in 0..Len(reply) : \A b \in 0..Len(reply) :
            OnlyTopLevelSpan(reply, a, b) => cleaned = Between(reply, a, b)

\* Neither the fenced rule nor the backtick rule applies to s.
NoEarlierRule(s) ==
    /\ \A k \in 0..Len(s) : ~MatchesAt(s, FenceJson, k)
    /\ \/ \A k \in 0..Len(s) : ~MatchesAt(s, TickBrace, k)
       \/ \A k \in 0..Len(s) : ~MatchesAt(s, BraceTick, k)

\* C5 amended: a reply with exactly one balanced top-level brace span, no
\* JSON-tagged fence marker and not both a backtick-brace and a
\* brace-backtick, is normalized to exactly that span.
C5_ReturnsTheOnlySpanByBraceRule ==
    norm_pc = "cleaned" =>
        \A a \in 0..Len(reply) : \A b \in 0..Len(reply) :
            (OnlyTopLevelSpan(reply, a, b) /\ NoEarlierRule(reply))
                => cleaned = Between(reply, a, b)

\* C5 witness: a span with prose on both sides was returned.
C5_Witness ==
    /\ norm_pc = "cleaned"
    /\ NoEarlierRule(reply)
    /\ \E a \in 1..Len(reply) : \E b \in 0..(Len(reply) - 1) :
           /\ OnlyTopLevelSpan(reply, a, b)
           /\ reply[1] = "x" /\ reply[Len(reply)] = "x"
           /\ cleaned = Between(reply, a, b)

\* C6 as stated: with expect_json, a completion that does not parse comes
\* back as the raw completion text, exactly as received.
C6_ParseFailureReturnsRawText ==
    (norm_pc = "returned" /\ api_ret.kind = "text") => api_ret.text = reply

\* ------------------------------------------------------------------------
\* Claims about the store and the query tool (SpecDb)
\* ------------------------------------------------------------------------

Range(f) == {f[k] : k \in DOMAIN f}

\* The rows of tags that carry name.
TagRows(db, name) == {t \in 1..Len(db.tags) : db.tags[t] = name}

\* In db, every tag of every returned save has exactly one row in tags, and
\* the saved problem is linked to that row.
UpsertedOnce(db) ==
    /\ \A t1, t2 \in 1..Len(db.tags) : db.tags[t1] = db.tags[t2] => t1 = t2
    /\ \A k \in 1..Len(save_log) : \A name \in Range(save_log[k].tags) :
           /\ Cardinality(TagRows(db, name)) = 1
           /\ \A t \in TagRows(db, name) :
                  <<save_log[k].problem_id, t>> \in db.problem_tags

\* C3: after any sequence of save_problem_to_db calls tag names are unique
\* in tags, every tag name of a returned save has exactly one row, and two
\* different problems saved with the same tag name are linked, by one
\* problem_tags row each, to the same tag id.
C3_TagUpsertIdempotent ==
    /\ UpsertedOnce(conn)
    /\ UpsertedOnce(disk)
    /\ \A j, k \in 1..Len(save_log) :
           \A name \in Range(save_log[j].tags) \cap Range(save_log[k].tags) :
               save_log[j].problem_id # save_log[k].problem_id =>
                   \E t \in 1..Len(disk.tags) :
                       /\ TagRows(disk, name) = {t}
                       /\ {<<save_log[j].problem_id, t>>,
                           <<save_log[k].problem_id, t>>} \subseteq disk.problem_tags
                       /\ Cardinality({l \in disk.problem_tags :
                              l[2] = t /\ l[1] \in {save_log[j].problem_id,
                                                    save_log[k].problem_id}}) = 2

\* C3 witness: two problems saved with tag "a" share its one row, beside a
\* second tag.
C3_Witness ==
    /\ Len(save_log) >= 2
    /\ "a" \in Range(save_log[1].tags) \cap Range(save_log[2].tags)
    /\ Cardinality(TagRows(disk, "a")) = 1
    /\ Len(disk.tags) = 2
    /\ Cardinality({l \in disk.problem_tags : disk.tags[l[2]] = "a"}) = 2

\* The names of the tags db links to problem p.
TagNamesOf(db, p) ==
    {db.tags[l[2]] : l \in {m \in db.problem_tags : m[1] = p}}

\* A tags field is the comma-joined string of exactly the names in names.
IsJoinOf(field, names) ==
    /\ Len(field) = 2 * Cardinality(names) - 1
    /\ \A k \in 1..Len(field) : k % 2 = 0 => field[k] = ", "
    /\ {field[k] : k \in {m \in 1..Len(field) : m % 2 = 1}} = names

\* C8 as stated: list --tag T [--limit N] shows exactly the problems whose
\* tag set includes T, by ascending id, only the first N of them when
\* --limit N is given, each with all of its tags comma-joined.  T is taken
\* to be a name, not the empty string.
C8_ListByTag ==
    (query.ran /\ query.tag_given /\ query.tag # "") =>
        LET want == Ascending({p \in 1..Len(disk.problems) :
                                  query.tag \in TagNamesOf(disk, p)})
            n == IF query.limit_given /\ query.limit < Len(want)
                 THEN query.limit ELSE Len(want)
        IN  /\ Len(rows) = n
            /\ \A k \in 1..n :
                   /\ rows[k].id = want[k]
                   /\ IsJoinOf(rows[k].tags, TagNamesOf(disk, want[k]))

\* ------------------------------------------------------------------------
\* Claims about the pipeline scripts (Spec)
\* ------------------------------------------------------------------------

\* The positions of a batch whose entry carries problem, answer and
\* solution, in order.
FullPositions(batch) ==
    Ascending({k \in 1..Len(batch) :
                  {"problem", "answer", "solution"} \subseteq batch[k].has})

\* The last response handled was a "problems" list, and the list.
BatchHandled ==
    /\ script = "generate_problems"
    /\ pc \in {"loop", "done", "exited"}
    /\ last_outcome \in {"added", "save_raised"}

HandledBatch ==
    IF response.py = "dict" THEN response.list ELSE response.loads_value.list

\* C1 as stated: of a "problems" list, every entry with all three keys is
\* handed to save_problem_to_db exactly once, and no other entry is.
C1_EveryFullEntryHandedOnce ==
    BatchHandled => handed = FullPositions(HandledBatch)

\* A response the claim calls malformed, for the stage's expected key: a
\* text that does not parse, a value that is no object, an object without
\* the key, or with a value under it that is no list.
Malformed(r) ==
    \/ r.py = "other"
    \/ r.py = "str" /\ ~r.loads_ok
    \/ r.py = "str" /\ r.loads_ok /\ r.loads_value.py # "dict"
    \/ r.py = "dict" /\ ~(r.has_key /\ r.is_list)

\* C2: in either loop, the step that handles a malformed response goes on
\* to the next item (its API call, or the summary after the last item): the
\* process does not exit, and no item is skipped.
C2_MalformedResponseNeverAborts ==
    [][(pc = "handle" /\ Malformed(response)) =>
           /\ pc' = "loop"
           /\ idx' = idx + 1
           /\ exit_status' = exit_status
           /\ items' = items
           /\ api_calls' = api_calls]_vars

\* C2 witness: a problem-generation run of two prompts ended with its
\* summary, the second response being a value json.loads cannot take.
C2_Witness ==
    /\ script = "generate_problems"
    /\ pc = "done"
    /\ exit_status = 0
    /\ api_calls = <<1, 2>>
    /\ last_outcome = "type_error"

\* C7: a failed HTTP call ends the process with status 1 on the spot, and
\* an ended process takes no further step: no retry, no later API call.
C7_HttpFailureTerminates ==
    [][/\ pc # "exited"
       /\ last_outcome' = "http_error" => (pc' = "exited" /\ exit_status' = 1)
       /\ (api_calls' # api_calls /\ pc' # "handle") =>
              last_outcome' = "http_error"]_vars

\* C7 witness: the call for the first of two items failed; the process is
\* gone, and no call was made for the second.
C7_Witness ==
    /\ pc = "exited"
    /\ exit_status = 1
    /\ last_outcome = "http_error"
    /\ Len(items) = 2
    /\ api_calls = <<1>>

\* The problem types a response adds: its list when it is, or parses to, an
\* object with a "problem_types" list; nothing otherwise.
Contribution(r) ==
    IF r.py = "dict" /\ r.has_key /\ r.is_list THEN r.list
    ELSE IF r.py = "str" /\ r.loads_ok /\ r.loads_value.py = "dict"
            /\ r.loads_value.has_key /\ r.loads_value.is_list
         THEN r.loads_value.list
    ELSE <<>>

\* C9: the prompt-generation stage calls the API once per topic, in file
\* order; each handled response appends its problem types, in order, to
\* the master list and nothing else changes it; the file written at the
\* end is that list.
C9_PromptsFileIsConcatenation ==
    [][script = "generate_prompts" =>
           /\ all_prompts' = (IF pc = "handle"
                              THEN all_prompts \o Contribution(response)
                              ELSE all_prompts)
           /\ api_calls' \in {api_calls, Append(api_calls, Len(api_calls) + 1)}
           /\ pc' = "handle" => api_calls' = [k \in 1..(idx + 1) |-> k]
           /\ pc' = "done" =>
                  /\ api_calls' = [k \in 1..Len(items) |-> k]
                  /\ outfile' \in {NoFile, ArrayFile(all_prompts)}
           /\ pc' # "done" => outfile' = NoFile]_vars

\* C9 witness: one topic, one response with one problem type: the file
\* holds exactly that object.
C9_Witness ==
    /\ script = "generate_prompts"
    /\ pc = "done"
    /\ Len(items) = 1
    /\ api_calls = <<1>>
    /\ response.py = "dict" /\ response.list = <<SamplePrompt>>
    /\ outfile = ArrayFile(<<SamplePrompt>>)

\* C10 as stated: a prompts file in either form, the bare array or the
\* object wrapping it under "problem_types", has its records processed.
C10_BothFormsProcessed ==
    (script = "generate_problems" /\ pc # "start"
        /\ infile.form \in {"array", "object"} /\ infile.records # <<>>)
        => items = infile.records

\* C10 amended: only a non-empty bare array is accepted and its records
\* processed; the object form is refused: the process exits with status 1
\* before any API call and nothing is stored.
C10_OnlyBareArrayAccepted ==
    (script = "generate_problems" /\ pc # "start") =>
        /\ (infile.form = "array" /\ infile.records # <<>>)
               => items = infile.records
        /\ infile.form = "object" =>
               /\ pc = "exited"
               /\ exit_status = 1
               /\ items = <<>>
               /\ api_calls = <<>>
               /\ disk = db0

\* C10 witness: an object-form file with two records was refused.
C10_Witness ==
    /\ script = "generate_problems"
    /\ infile.form = "object"
    /\ Len(infile.records) = 2
    /\ pc = "exited"

\* C11 as stated: the prompt-generation stage filters out the entries of a
\* "problem_types" list that lack one of id, title, topic, tags, prompt, so
\* every record of the prompts file it writes carries all five.
C11_WrittenRecordsCarryAllFields ==
    (script = "generate_prompts" /\ pc = "done" /\ outfile.form = "array") =>
        \A k \in 1..Len(outfile.records) :
            {"id", "title", "topic", "tags", "prompt"}
                \subseteq outfile.records[k].has

\* The rows of db whose prompt_title is title.
OfType(db, title) ==
    {p \in 1..Len(db.problems) : db.problems[p].prompt_title = title}

\* r is the texts of the n most recently inserted problems of type title
\* in db (all of them when there are fewer), newest first.
IsNewestOfType(r, db, title, n) ==
    LET ids == OfType(db, title)
        m == IF n < Cardinality(ids) THEN n ELSE Cardinality(ids)
    IN  /\ Len(r) = m
        /\ \A k \in 1..m :
               \E p \in ids :
                   /\ r[k] = db.problems[p].problem
                   /\ Cardinality({q \in ids : q > p}) = k - 1

\* C12: the problem-generation loop builds the duplication hint once per
\* prompt, in the step that makes that prompt's API call and nowhere else;
\* the hint is the texts of the num_recent_for_dedup most recently inserted
\* problems of the prompt's title as the run's connection sees them, newest
\* first, at most that many, the problems saved for earlier prompts of the
\* run included.
C12_RecentHintNewestFirst ==
    [][script = "generate_problems" =>
           /\ api_calls' # api_calls =>
                  /\ api_calls' = Append(api_calls, idx + 1)
                  /\ Len(recent_problems') <= 15
                  /\ IsNewestOfType(recent_problems', conn,
                                    items[idx + 1].title, 15)
           /\ api_calls' = api_calls =>
                  recent_problems' = recent_problems]_vars

\* C12 witness: on a database with sixteen earlier problems of the type, the
\* hint for the second prompt of the run holds fifteen texts, the newest
\* of them saved for the first prompt of the same run.
C12_Witness ==
    /\ script = "generate_problems"
    /\ db0 = PriorDb
    /\ pc = "handle"
    /\ idx = 1
    /\ Len(recent_problems) = 15
    /\ recent_problems[1][1] = 1
    /\ recent_problems[15][1] = 0
    /\ Cardinality(OfType(conn, items[2].title)) > 15

\* ------------------------------------------------------------------------
\* More claims about the normalizer (SpecClean)
\* ------------------------------------------------------------------------

\* s holds no JSON-tagged fence marker.
NoTaggedFence(s) == \A k \in 0..Len(s) : ~MatchesAt(s, FenceJson, k)

\* The first backtick-brace of s is at i and the first brace-backtick after
\* its backtick is at j: s[i+1 : j+1] is the wrapped object.
WrappedObject(s, i, j) ==
    /\ MatchesAt(s, TickBrace, i)
    /\ \A k \in 0..(i - 1) : ~MatchesAt(s, TickBrace, k)
    /\ j >= i + 1
    /\ MatchesAt(s, BraceTick, j)
    /\ \A k \in (i + 1)..(j - 1) : ~MatchesAt(s, BraceTick, k)

\* C13 as stated: a reply without a JSON-tagged fence that holds an object
\* wrapped in single backticks is normalized to the text from the brace
\* after the opening backtick through the brace before the closing one;
\* and whenever the reply holds both a backtick-brace and a brace-backtick
\* the result is non-empty, begins with an opening brace and ends with a
\* closing brace.
C13_BacktickObjectReturned ==
    (norm_pc = "cleaned" /\ NoTaggedFence(reply)) =>
        /\ \A i \in 0..Len(reply) : \A j \in 0..Len(reply) :
               WrappedObject(reply, i, j)
                   => cleaned = Between(reply, i + 1, j + 1)
        /\ (\E i \in 0..Len(reply) : MatchesAt(reply, TickBrace, i))
               /\ (\E j \in 0..Len(reply) : MatchesAt(reply, BraceTick, j))
               => /\ cleaned # <<>>
                  /\ cleaned[1] = "{"
                  /\ cleaned[Len(cleaned)] = "}"

\* s[a:b] is the first top-level brace span of s: it starts at the first
\* opening brace of s and ends at the closing brace where the depth first
\* returns to zero.
FirstSpan(s, a, b) ==
    /\ 0 <= a /\ a < b /\ b <= Len(s)
    /\ s[a + 1] = "{"
    /\ \A k \in 1..a : s[k] # "{"
    /\ Opens(s, a, b) = Closes(s, a, b)
    /\ \A m \in (a + 1)..(b - 1) : Opens(s, a, m) > Closes(s, a, m)

\* s[a:b] is a balanced brace span of s.
BalancedSpan(s, a, b) ==
    /\ 0 <= a /\ a < b /\ b <= Len(s)
    /\ s[a + 1] = "{"
    /\ Opens(s, a, b) = Closes(s, a, b)
    /\ \A m \in (a + 1)..(b - 1) : Opens(s, a, m) > Closes(s, a, m)

\* C14: of a reply with no JSON-tagged fence marker and not both a
\* backtick-brace and a brace-backtick that holds more than one brace span,
\* nested or one after the other, clean_json_response returns the first
\* top-level span: never an object nested in it on its own, never a later
\* top-level object, never more than the span.
C14_FirstTopLevelSpanWins ==
    (norm_pc = "cleaned" /\ NoEarlierRule(reply)) =>
        \A a \in 0..Len(reply) : \A b \in 0..Len(reply) :
            (FirstSpan(reply, a, b) /\ Opens(reply, 0, Len(reply)) >= 2) =>
                /\ cleaned = Between(reply, a, b)
                /\ \A a2 \in 0..Len(reply) : \A b2 \in 0..Len(reply) :
                       (BalancedSpan(reply, a2, b2) /\ <<a2, b2>> # <<a, b>>)
                           => cleaned # Between(reply, a2, b2)
                              \/ Between(reply, a2, b2) = Between(reply, a, b)

\* C14 witness: two top-level spans one after the other, followed by prose;
\* the first was returned.
C14_Witness ==
    /\ norm_pc = "cleaned"
    /\ NoEarlierRule(reply)
    /\ reply # <<>>
    /\ reply[Len(reply)] = "x"
    /\ \E a \in 0..Len(reply) : \E b \in 0..Len(reply) :
           /\ FirstSpan(reply, a, b)
           /\ \E a2 \in b..Len(reply) : \E b2 \in b..Len(reply) :
                  BalancedSpan(reply, a2, b2)
           /\ cleaned = Between(reply, a, b)
           /\ cleaned # reply

\* C15: a reply with no JSON-tagged fence marker, not both a backtick-brace
\* and a brace-backtick, and no closing brace that returns the depth counted
\* from the first opening brace to zero, is returned unchanged.
C15_NoSpanReturnsInputUnchanged ==
    (/\ norm_pc = "cleaned"
     /\ NoEarlierRule(reply)
     /\ ~\E a \in 0..Len(reply) : \E b \in 0..Len(reply) :
            FirstSpan(reply, a, b))
        => cleaned = reply

\* C15 witness: a reply that starts with a blank and a closing brace and
\* whose later braces never balance came back as it was.
C15_Witness ==
    /\ norm_pc = "cleaned"
    /\ NoEarlierRule(reply)
    /\ Len(reply) >= 4
    /\ reply[1] = " "
    /\ reply[2] = "}"
    /\ Opens(reply, 0, Len(reply)) > Closes(reply, 2, Len(reply))
    /\ Closes(reply, 2, Len(reply)) >= 1
    /\ cleaned = reply

\* ------------------------------------------------------------------------
\* Claims about what a problem-generation run leaves in the database (Spec)
\* ------------------------------------------------------------------------

\* The rows of problems the run added to db; the text of a row names the
\* prompt (its position in the prompts file) it was generated from.
AddedRows(db) == (Len(db0.problems) + 1)..Len(db.problems)

PromptOfRow(db, p) == items[db.problems[p].problem[1]]

\* C16 as stated: after a problem-generation run, every problem row the run
\* committed is linked to every distinct tag of its prompt, and every
\* problem_tags row references an existing problem and an existing tag (a
\* (problem_id, tag_id) pair is a member of problem_tags or not: the primary
\* key lets none occur twice).
C16_CommittedRowsFullyLinked ==
    (script = "generate_problems" /\ pc \in {"done", "exited"}) =>
        /\ \A p \in AddedRows(disk) :
               \A name \in Range(PromptTags(PromptOfRow(disk, p))) :
                   \E t \in 1..Len(disk.tags) :
                       /\ disk.tags[t] = name
                       /\ <<p, t>> \in disk.problem_tags
        /\ \A l \in disk.problem_tags :
               /\ l[1] \in 1..Len(disk.problems)
               /\ l[2] \in 1..Len(disk.tags)

\* C17 as stated: when the run reaches its summary, the total it reports is
\* the number of problem rows it added to the committed database.
C17_TotalCountsDurableRows ==
    (script = "generate_problems" /\ pc = "done") =>
        total_problems_generated = Cardinality(AddedRows(disk))

=============================================================================
